---- MODULE Spec2Model ----
(***************************************************************************)
(* The generation pipeline engine of learning-claude-code:                 *)
(*   approach-2-api-pipeline/pipeline.py    VideoPipeline.generate and its *)
(*                                          providers and compiler         *)
(*   approach-3-hybrid/generate_assets.py   ImageGenerator and             *)
(*                                          generate_theme_assets          *)
(*   approach-3-hybrid/orchestrate.py       HybridPipeline.run             *)
(* One run of one entry point is a behaviour.  Every remote service, the   *)
(* encoder and the Rust engine are the environment: each of their answers  *)
(* is a nondeterministic choice.                                           *)
(***************************************************************************)
EXTENDS Integers, Sequences, FiniteSets, TLC

VARIABLES
    entry,      \* "video" | "hybrid" | "assets": which entry point runs
    env,        \* the API credentials present in the environment
    opts,       \* constructor / command-line arguments of the run
    provider,   \* generate_theme_assets' provider argument
    pc,         \* control location of the run
    files,      \* files (and directories) present under the output directory
    produced,   \* history: every file the run has written so far
    raised,     \* the exception that ended the run, or NoError
    returned,   \* the path the entry point returned, or NoPath
    nScenes,    \* len(script.scenes)
    idx,        \* loop index: scene, asset or cleanup position
    clips,      \* VideoPipeline.generate's clips list (paths)
    job,        \* the remote prediction being polled
    attempt,    \* the provider variant serving the current request
    called,     \* history: remote services the run has sent a request to
    scenes,     \* script.scenes: the scene list the script provider returned
    spoken,     \* the text VideoPipeline.generate passed to generate_audio
    inflight,   \* generate_clip calls awaited and not yet returned
    returncode, \* exit status of the encoder process run last (0 before any)
    document, \* the content of script_<timestamp>.json as written
    audio, \* the asset generate_audio returned, with the probe output it read
    engine, \* what _render_frames found and ran: the Rust project, cargo, the Python renderer
    manifest,   \* assets_dir / manifest.json: whether it exists, what it lists
    manifest_writes, \* history: how often the run has written manifest.json
    backgrounds, \* _render_frames_python: the backgrounds list
    characters, \* _render_frames_python: the characters list
    frame_num,  \* _render_frames_python: the frame loop's index
    frame,      \* _render_frames_python: the frame saved last
    pair,       \* two ImageGenerators stepped side by side
    runs,       \* two VideoPipeline runs sharing one event loop
    touched     \* per run, the paths it has written or deleted

\* The variables of the renderer, of the generator pair and of the concurrent
\* runs: the three entry points leave them alone.
others == <<backgrounds, characters, frame_num, frame, pair, runs, touched>>

vars == <<entry, env, opts, provider, pc, files, produced, raised, returned,
          nScenes, idx, clips, job, attempt, called, scenes, spoken, inflight,
          returncode, document, audio, engine, manifest, manifest_writes, backgrounds, characters, frame_num, frame, pair, runs, touched>>

(***************************************************************************)
(* Bounds of the model and constants of the program.                       *)
(***************************************************************************)
MaxPolls == 3
MaxScenes == 3
VideoPollInterval == 5
ImagePollInterval == 3
PollBudget == 6

Credentials == {"ANTHROPIC_API_KEY", "REPLICATE_API_TOKEN", "OPENAI_API_KEY"}
\* The two ImageGenerator reads in its constructor.
RealKeys == {"REPLICATE_API_TOKEN", "OPENAI_API_KEY"}

\* The statuses a Replicate prediction reports.
Statuses == {"starting", "processing", "succeeded", "failed", "canceled"}
PendingStatuses == {"starting", "processing"}

\* prediction.get('error'): a reported reason, or None when the field is absent.
NoReason == "None"
Reasons == {"NSFW content detected", "CUDA out of memory", NoReason}

HttpErrorCodes == {401, 500}

NoError == [type |-> "None", code |-> 0, prefix |-> "", reason |-> ""]
NoPath == <<"none", 0>>

HTTPStatusError(code) ==
    [type |-> "HTTPStatusError", code |-> code, prefix |-> "", reason |-> ""]
TimeoutException ==
    [type |-> "TimeoutException", code |-> 0, prefix |-> "", reason |-> ""]
CalledProcessError ==
    [type |-> "CalledProcessError", code |-> 1, prefix |-> "", reason |-> ""]
\* subprocess.run of a program that cannot be started.
FileNotFoundError ==
    [type |-> "FileNotFoundError", code |-> 0, prefix |-> "", reason |-> ""]
JSONDecodeError ==
    [type |-> "JSONDecodeError", code |-> 0, prefix |-> "", reason |-> ""]
HeaderTypeError ==
    [type |-> "TypeError", code |-> 0, prefix |-> "", reason |-> ""]
\* float() of a text that is not a number.
ValueError ==
    [type |-> "ValueError", code |-> 0, prefix |-> "", reason |-> ""]
\* A failure of the edge-tts connection (not an httpx exception).
TransportError ==
    [type |-> "TransportError", code |-> 0, prefix |-> "", reason |-> ""]

\* The error kinds of the specification's taxonomy, by the exception the code raises.
ErrorKind(e) ==
    CASE e.type = "RuntimeError" -> "GenerationError"
      [] e.type = "HTTPStatusError" /\ e.code \in {401, 403} -> "AuthError"
      [] e.type = "HTTPStatusError" -> "GenerationError"
      [] e.type = "JSONDecodeError" -> "GenerationError"
      [] e.type = "TimeoutException" -> "TimeoutError"
      [] e.type = "CalledProcessError" -> "AssemblyError"
      [] e.type = "TypeError" -> "AuthError"
      [] OTHER -> "None"

(***************************************************************************)
(* generate_assets.py: THEMES                                              *)
(***************************************************************************)
Asset(c, n, w, h, rb) ==
    [category |-> c, name |-> n, width |-> w, height |-> h, remove_background |-> rb]

THEMES ==
    [t \in {"uno-no-mercy", "financial-basics"} |->
        IF t = "uno-no-mercy"
        THEN [backgrounds |-> << Asset("backgrounds", "bg_intro", 1080, 1920, FALSE),
                                 Asset("backgrounds", "bg_dramatic", 1080, 1920, FALSE),
                                 Asset("backgrounds", "bg_chaos", 1080, 1920, FALSE),
                                 Asset("backgrounds", "bg_outro", 1080, 1920, FALSE) >>,
              characters  |-> << Asset("characters", "character_neutral", 512, 768, TRUE),
                                 Asset("characters", "character_shocked", 512, 768, TRUE),
                                 Asset("characters", "character_mischievous", 512, 768, TRUE),
                                 Asset("characters", "character_serious", 512, 768, TRUE) >>,
              props       |-> << Asset("props", "card_stack", 400, 300, TRUE),
                                 Asset("props", "plus_ten_card", 200, 300, TRUE) >>]
        ELSE [backgrounds |-> << Asset("backgrounds", "bg_intro", 1080, 1920, FALSE),
                                 Asset("backgrounds", "bg_growth", 1080, 1920, FALSE),
                                 Asset("backgrounds", "bg_warning", 1080, 1920, FALSE),
                                 Asset("backgrounds", "bg_success", 1080, 1920, FALSE) >>,
              characters  |-> << Asset("characters", "character_friendly", 512, 768, TRUE),
                                 Asset("characters", "character_explaining", 512, 768, TRUE) >>,
              props       |-> << Asset("props", "pie_chart", 400, 400, TRUE),
                                 Asset("props", "money_stack", 300, 300, TRUE) >>]]

ThemeNames == DOMAIN THEMES \cup {"no-such-theme"}

\* The order generate_theme_assets generates in: backgrounds, characters, props.
ThemeAssets(t) ==
    IF t \in DOMAIN THEMES
    THEN THEMES[t].backgrounds \o THEMES[t].characters \o THEMES[t].props
    ELSE << >>

(***************************************************************************)
(* Paths.  A file is <<kind, n>>.                                          *)
(***************************************************************************)
ScriptPath == <<"script_json", 0>>     \* output_dir / script_<timestamp>.json
AudioPath == <<"voiceover", 0>>        \* output_dir / voiceover.mp3
ClipPath(i) == <<"clip", i>>           \* output_dir / clip_<i>.mp4   (i from 0)
ImagePath(i) == <<"png", i>>           \* clip path with suffix .png
ConcatFile == <<"concat", 0>>          \* output_dir / concat.txt
TempVideo == <<"temp_concat", 0>>      \* output_dir / temp_concat.mp4
FinalPath == <<"final", 0>>            \* video_<timestamp>.mp4, hybrid_video_<timestamp>.mp4
AssetPath(k) == <<"asset", k>>         \* assets_dir / <category> / <name>.png (k-th of the theme)
AssetDir(d) == <<"dir", d>>            \* assets_dir / backgrounds | characters | props
ManifestPath == <<"manifest", 0>>      \* assets_dir / manifest.json
FramesPath == <<"frames", 0>>          \* frames_dir / frame_%05d.png
ScriptText == <<"script_txt", 0>>      \* output_dir / script.txt

Write(f) == files' = files \cup {f} /\ produced' = produced \cup {f}
Unlink(f) == files' = files \ {f} /\ UNCHANGED produced
NoIO == UNCHANGED <<files, produced>>

(***************************************************************************)
(* Exceptions.  No caller in the three files catches an exception of a     *)
(* provider, a stage or the encoder: each one ends the run.                *)
(***************************************************************************)
Raise_Continue(e) == raised' = e /\ pc' = pc
\* An exception leaves generate / run: nothing in them catches it.
Raise(e) == raised' = e /\ pc' = "aborted"

ProviderError_ToPlaceholder(e) == raised' = raised /\ pc' = "placeholder"
\* ImageGenerator.generate returns the provider's coroutine result: its exception propagates.
ProviderError(e) == raised' = e /\ pc' = "aborted"

(***************************************************************************)
(* The encoder: every ffmpeg call is subprocess.run(..., check=True).      *)
(***************************************************************************)
\* The exit statuses of the encoder process: success, or any failure.
ExitCodes == {0, 1}

Checked_Never(rc) == FALSE
\* check=True: subprocess.run raises CalledProcessError on a nonzero exit status
Checked(rc) == rc # 0

\* What an encoder run that was not raised on leaves: its output file, if it
\* succeeded.
Encoded(rc, f) == IF rc = 0 THEN Write(f) ELSE NoIO

(***************************************************************************)
(* Fallback Resolver: ImageGenerator.generate and HybridPipeline's choice  *)
(* of the provider argument.                                               *)
(***************************************************************************)
\* ImageGenerator.generate's if / elif / else chain.
Resolve(p, e) ==
    IF p = "replicate" /\ "REPLICATE_API_TOKEN" \in e THEN "replicate"
    ELSE IF p = "openai" /\ "OPENAI_API_KEY" \in e THEN "openai"
    ELSE "placeholder"

\* orchestrate.py: provider="replicate" if os.getenv("REPLICATE_API_TOKEN") else "placeholder"
HybridProvider(e) == IF "REPLICATE_API_TOKEN" \in e THEN "replicate" ELSE "placeholder"

NewAttempt(v) == [variant |-> v, outcome |-> "pending", err |-> NoError]
NoAttempt == [variant |-> "none", outcome |-> "none", err |-> NoError]

\* Where each provider variant's code starts.
ProviderEntry(v) ==
    CASE v = "replicate" -> "submit"
      [] v = "openai" -> "o_post"
      [] v = "placeholder" -> "placeholder"
      [] v = "fallback" -> "f_image"

(***************************************************************************)
(* Remote Job Poller: ReplicateVideoProvider.generate_clip (pipeline.py)   *)
(* and ImageGenerator._generate_replicate (generate_assets.py).            *)
(***************************************************************************)
NoJob == [polls |-> 0, sleeps |-> 0, pending |-> 0, other |-> 0,
          status |-> "none", error |-> NoReason, fetched |-> FALSE]

JobKind == IF entry = "video" THEN "video" ELSE "image"

\* asyncio.sleep(5) in pipeline.py, asyncio.sleep(3) in generate_assets.py
PollInterval == IF JobKind = "video" THEN VideoPollInterval ELSE ImagePollInterval

\* Seconds slept since submission.
Elapsed == job.sleeps * PollInterval

Dest_First == IF JobKind = "video" THEN ClipPath(idx) ELSE AssetPath(1)
\* The destination path of the current request.
Dest == IF JobKind = "video" THEN ClipPath(idx) ELSE AssetPath(idx)

\* Where the provider call returns to.
AfterProvider == IF JobKind = "video" THEN "v_clip_done" ELSE "a_post"

LoopHead_Poll == "poll"
\* while True: the body starts with await asyncio.sleep(interval)
LoopHead == "sleep"

PollOutcome_BreakOnAny(s) ==
    IF s \in {"succeeded", "processing"} THEN "break"
    ELSE IF s = "failed" THEN "raise"
    ELSE "continue"
PollOutcome_CanceledRaises(s) ==
    IF s = "succeeded" THEN "break"
    ELSE IF s \in {"failed", "canceled"} THEN "raise"
    ELSE "continue"
\* if status == "succeeded": break / elif status == "failed": raise / else: loop again
PollOutcome(s) ==
    IF s = "succeeded" THEN "break"
    ELSE IF s = "failed" THEN "raise"
    ELSE "continue"

FailureError_Generic(kind, reason) ==
    [type |-> "RuntimeError", code |-> 0,
     prefix |-> IF kind = "video" THEN "Video generation failed: " ELSE "Generation failed: ",
     reason |-> "unknown error"]
\* RuntimeError(f"Video generation failed: {prediction.get('error')}")
\* RuntimeError(f"Generation failed: {result.get('error')}")
FailureError(kind, reason) ==
    [type |-> "RuntimeError", code |-> 0,
     prefix |-> IF kind = "video" THEN "Video generation failed: " ELSE "Generation failed: ",
     reason |-> reason]

\* An exception inside a provider call: through ImageGenerator.generate for an
\* image, straight into VideoPipeline.generate for a clip.
ProviderFail(e) ==
    /\ attempt' = [attempt EXCEPT !.outcome = "error", !.err = e]
    /\ IF JobKind = "image" THEN ProviderError(e) ELSE Raise(e)

\* client.post(predictions); response.raise_for_status()
Submit ==
    /\ pc = "submit"
    /\ called' = called \cup {"replicate"}
    /\ \/ /\ "REPLICATE_API_TOKEN" \in env
          /\ job' = NoJob
          /\ pc' = LoopHead
          /\ UNCHANGED <<raised, attempt>>
       \/ /\ \E e \in {HTTPStatusError(c) : c \in HttpErrorCodes} \cup {TimeoutException} :
                ProviderFail(e)
          /\ UNCHANGED job
    /\ NoIO
    /\ UNCHANGED <<others, engine, audio, document, manifest, manifest_writes, returncode, scenes, spoken, inflight, entry, env, opts, provider, returned, nScenes, idx, clips>>

\* await asyncio.sleep(interval)
Sleep ==
    /\ pc = "sleep"
    /\ job.sleeps < MaxPolls
    /\ job' = [job EXCEPT !.sleeps = @ + 1]
    /\ pc' = "poll"
    /\ NoIO
    /\ UNCHANGED <<others, engine, audio, document, manifest, manifest_writes, returncode, scenes, spoken, inflight, entry, env, opts, provider, raised, returned, nScenes, idx, clips,
                   attempt, called>>

\* client.get(prediction url); then the status test
Poll ==
    /\ pc = "poll"
    /\ \/ \E s \in Statuses, r \in Reasons :
            /\ (s # "failed") => (r = NoReason)
            /\ job' = [job EXCEPT !.polls = @ + 1,
                                  !.status = s,
                                  !.error = r,
                                  !.pending = IF s \in PendingStatuses THEN @ + 1 ELSE @,
                                  !.other = IF s = "canceled" THEN @ + 1 ELSE @]
            /\ CASE PollOutcome(s) = "break" ->
                        pc' = "fetch" /\ UNCHANGED <<raised, attempt>>
                 [] PollOutcome(s) = "raise" ->
                        ProviderFail(FailureError(JobKind, r))
                 [] OTHER ->
                        pc' = LoopHead /\ UNCHANGED <<raised, attempt>>
       \/ /\ job' = [job EXCEPT !.polls = @ + 1]
          /\ ProviderFail(TimeoutException)
    /\ NoIO
    /\ UNCHANGED <<others, engine, audio, document, manifest, manifest_writes, returncode, scenes, spoken, inflight, entry, env, opts, provider, returned, nScenes, idx, clips, called>>

\* client.get(video_url) / client.get(image_url)
Fetch ==
    /\ pc = "fetch"
    /\ \/ /\ job' = [job EXCEPT !.fetched = TRUE]
          /\ pc' = "write"
          /\ UNCHANGED <<raised, attempt>>
       \/ /\ ProviderFail(TimeoutException)
          /\ UNCHANGED job
    /\ NoIO
    /\ UNCHANGED <<others, engine, audio, document, manifest, manifest_writes, returncode, scenes, spoken, inflight, entry, env, opts, provider, returned, nScenes, idx, clips, called>>

\* output_path.write_bytes(content) (and the in-place resize of an oversized image); return
WriteResult ==
    /\ pc = "write"
    /\ Write(Dest)
    /\ attempt' = [attempt EXCEPT !.outcome = "ok"]
    /\ pc' = AfterProvider
    /\ UNCHANGED <<others, engine, audio, document, manifest, manifest_writes, returncode, scenes, spoken, inflight, entry, env, opts, provider, raised, returned, nScenes, idx, clips,
                   job, called>>

(***************************************************************************)
(* ImageGenerator._generate_openai and ._generate_placeholder              *)
(***************************************************************************)
OpenAIPost ==
    /\ pc = "o_post"
    /\ called' = called \cup {"openai"}
    /\ \/ pc' = "o_fetch" /\ UNCHANGED <<raised, attempt>>
       \/ \E e \in {HTTPStatusError(c) : c \in HttpErrorCodes} \cup {TimeoutException} :
            ProviderFail(e)
    /\ NoIO
    /\ UNCHANGED <<others, engine, audio, document, manifest, manifest_writes, returncode, scenes, spoken, inflight, entry, env, opts, provider, returned, nScenes, idx, clips, job>>

OpenAIFetch ==
    /\ pc = "o_fetch"
    /\ \/ /\ Write(Dest)
          /\ attempt' = [attempt EXCEPT !.outcome = "ok"]
          /\ pc' = "a_post"
          /\ UNCHANGED raised
       \/ /\ ProviderFail(TimeoutException)
          /\ NoIO
    /\ UNCHANGED <<others, engine, audio, document, manifest, manifest_writes, returncode, scenes, spoken, inflight, entry, env, opts, provider, returned, nScenes, idx, clips, job, called>>

\* A locally drawn gradient with the prompt text: no request is sent.
Placeholder ==
    /\ pc = "placeholder"
    /\ Write(AssetPath(idx))
    /\ attempt' = [attempt EXCEPT !.outcome = "ok"]
    /\ pc' = "a_post"
    /\ UNCHANGED <<others, engine, audio, document, manifest, manifest_writes, returncode, scenes, spoken, inflight, entry, env, opts, provider, raised, returned, nScenes, idx, clips,
                   job, called>>

(***************************************************************************)
(* generate_theme_assets                                                   *)
(***************************************************************************)
AfterAssets == IF entry = "hybrid" THEN "h_render" ELSE "done"

AssetDirs == {AssetDir(d) : d \in 1..3}

KnownTheme_Any(t) == TRUE
\* if theme_name not in THEMES: ... return
KnownTheme(t) == t \in DOMAIN THEMES

\* The unknown-theme return, else the three mkdirs.
AssetsStart ==
    /\ pc = "a_start"
    /\ IF ~KnownTheme(opts.theme)
       THEN /\ pc' = AfterAssets
            /\ NoIO
            /\ UNCHANGED idx
       ELSE /\ files' = files \cup AssetDirs
            /\ produced' = produced \cup AssetDirs
            /\ idx' = 1
            /\ pc' = "a_loop"
    /\ UNCHANGED <<others, engine, audio, document, manifest, manifest_writes, returncode, scenes, spoken, inflight, entry, env, opts, provider, raised, returned, nScenes, clips, job,
                   attempt, called>>

\* The three for-loops over the theme's assets; each calls generator.generate.
AssetsLoop ==
    /\ pc = "a_loop"
    /\ IF idx <= Len(ThemeAssets(opts.theme))
       THEN /\ attempt' = NewAttempt(Resolve(provider, env))
            /\ job' = NoJob
            /\ pc' = ProviderEntry(Resolve(provider, env))
       ELSE /\ pc' = "a_manifest"
            /\ UNCHANGED <<attempt, job>>
    /\ NoIO
    /\ UNCHANGED <<others, engine, audio, document, manifest, manifest_writes, returncode, scenes, spoken, inflight, entry, env, opts, provider, raised, returned, nScenes, idx, clips, called>>

\* remove_background rewrites the same file (or is skipped); next asset.
AssetDone ==
    /\ pc = "a_post"
    /\ idx' = idx + 1
    /\ pc' = "a_loop"
    /\ NoIO
    /\ UNCHANGED <<others, engine, audio, document, manifest, manifest_writes, returncode, scenes, spoken, inflight, entry, env, opts, provider, raised, returned, nScenes, clips, job,
                   attempt, called>>

\* f"{category}/{a.name}.png"
ManifestEntry(a) == <<a.category, a.name>>

ManifestList_Reversed(assets) ==
    [i \in 1..Len(assets) |-> ManifestEntry(assets[Len(assets) + 1 - i])]
\* [f"{category}/{a.name}.png" for a in theme.get(category, [])]
ManifestList(assets) == [i \in 1..Len(assets) |-> ManifestEntry(assets[i])]

\* The manifest dictionary's "assets" entry for theme t.
ManifestOf(t) ==
    [exists |-> TRUE,
     backgrounds |-> ManifestList(THEMES[t].backgrounds),
     characters |-> ManifestList(THEMES[t].characters),
     props |-> ManifestList(THEMES[t].props)]

\* json.dump(manifest, open(output_dir / "manifest.json", "w"))
WriteManifest ==
    /\ pc = "a_manifest"
    /\ Write(ManifestPath)
    /\ manifest' = ManifestOf(opts.theme)
    /\ manifest_writes' = manifest_writes + 1
    /\ pc' = AfterAssets
    /\ UNCHANGED <<others, engine, audio, document, returncode, scenes, spoken, inflight, entry, env, opts, provider, raised, returned, nScenes, idx, clips,
                   job, attempt, called>>

(***************************************************************************)
(* pipeline.py: Scene, VideoScript                                         *)
(***************************************************************************)
\* generate's duration argument, which becomes script.total_duration
TotalDuration == 60

\* A Scene: its times in seconds, its narration as a sequence of characters
\* (a word stands for a run of characters without a blank).
\* text_overlay is optional: None where the answer has none.
NoOverlay == "None"
Scene(s, e, n) ==
    [start_time |-> s, end_time |-> e, narration |-> n,
     visual_prompt |-> "shot of " \o n[1],
     text_overlay |-> IF e > s THEN "overlay " \o n[1] ELSE NoOverlay]

\* The scenes the model lets the language model answer with: two that tile the
\* duration, and one that starts and ends at the same instant.
SceneChoices ==
    {Scene(0, 30, <<"So", " ", "you">>), Scene(30, 60, <<"play">>), Scene(30, 30, <<"cut">>)}

\* data["scenes"]: any list of them, in any order; the code checks nothing.
Scripts == UNION {[1..n -> SceneChoices] : n \in 0..MaxScenes}

RECURSIVE Join(_)
\* " ".join(parts)
Join(parts) ==
    IF parts = << >> THEN << >>
    ELSE IF Len(parts) = 1 THEN parts[1]
    ELSE parts[1] \o <<" ">> \o Join(Tail(parts))

ToNarration_DropLast(sc) == Join([i \in 1..(Len(sc) - 1) |-> sc[i].narration])
\* VideoScript.to_narration
ToNarration(sc) == Join([i \in 1..Len(sc) |-> sc[i].narration])

\* clip_duration = scene.end_time - scene.start_time   (i from 0, as enumerate)
ClipDuration(i) == scenes[i + 1].end_time - scenes[i + 1].start_time

\* The generate_clip call for scene i.
ClipRequest(i) == [scene |-> i, duration |-> ClipDuration(i)]

NextClips_Prepend(c, clip) == <<clip>> \o c
\* clips.append(clip)
NextClips(c, clip) == Append(c, clip)

\* The VideoScript generate_script returns for the scene list sc: the title is
\* the answer's, topic and style are generate's arguments.
Script(sc) ==
    [title |-> "Video title", topic |-> "UNO No Mercy", style |-> "energetic",
     total_duration |-> TotalDuration, scenes |-> sc]

DumpScene_NoOverlay(s) ==
    [narration |-> s.narration, visual_prompt |-> s.visual_prompt,
     text_overlay |-> NoOverlay, start_time |-> s.start_time, end_time |-> s.end_time]
\* The dictionary json.dump writes for one scene.
DumpScene(s) ==
    [narration |-> s.narration, visual_prompt |-> s.visual_prompt,
     text_overlay |-> s.text_overlay, start_time |-> s.start_time,
     end_time |-> s.end_time]

\* The document json.dump writes: title, topic, style and the scenes in list order.
DumpScript(script) ==
    [title |-> script.title, topic |-> script.topic, style |-> script.style,
     scenes |-> [i \in 1..Len(script.scenes) |-> DumpScene(script.scenes[i])]]

NoDocument == [title |-> "", topic |-> "", style |-> "", scenes |-> << >>]

(***************************************************************************)
(* pipeline.py: VideoPipeline.generate                                     *)
(***************************************************************************)
\* Step 1: ClaudeScriptProvider.generate_script.  With no ANTHROPIC_API_KEY the
\* x-api-key header is None: httpx refuses it, or the service answers 401.
GenerateScript ==
    /\ pc = "v_script"
    /\ IF "ANTHROPIC_API_KEY" \notin env
       THEN \/ Raise(HeaderTypeError) /\ UNCHANGED <<called, nScenes, scenes>>
            \/ /\ Raise(HTTPStatusError(401))
               /\ called' = called \cup {"anthropic"}
               /\ UNCHANGED <<nScenes, scenes>>
       ELSE /\ called' = called \cup {"anthropic"}
            /\ \/ /\ scenes' \in Scripts
                  /\ nScenes' = Len(scenes')
                  /\ pc' = "v_save"
                  /\ UNCHANGED raised
               \/ /\ \E e \in {HTTPStatusError(c) : c \in HttpErrorCodes}
                               \cup {TimeoutException, JSONDecodeError} : Raise(e)
                  /\ UNCHANGED <<nScenes, scenes>>
    /\ NoIO
    /\ UNCHANGED <<others, engine, audio, document, manifest, manifest_writes, returncode, spoken, inflight, entry, env, opts, provider, returned, idx, clips, job, attempt>>

\* json.dump of the script to script_<timestamp>.json
SaveScript ==
    /\ pc = "v_save"
    /\ Write(ScriptPath)
    /\ document' = DumpScript(Script(scenes))
    /\ pc' = "v_tts"
    /\ UNCHANGED <<others, engine, audio, manifest, manifest_writes, returncode, scenes, spoken, inflight, entry, env, opts, provider, raised, returned, nScenes, idx, clips,
                   job, attempt, called>>

\* What ffprobe can have printed for the written file: nothing (it failed, or
\* the file has no duration; its exit status is not looked at), a text that is
\* not a number, or a number of seconds.
ProbeOutputs ==
    {[kind |-> "empty", value |-> 0], [kind |-> "text", value |-> 0]}
        \cup {[kind |-> "number", value |-> v] : v \in {58}}

\* duration = float(result.stdout.strip()) if result.stdout.strip() else 0
ProbedDuration(out) == IF out.kind = "empty" THEN 0 ELSE out.value

NoAudio == [returned |-> FALSE, duration |-> -1, stdout |-> [kind |-> "none", value |-> 0]]

\* The audio file is written; ffprobe runs on it; the GeneratedAsset is returned
\* with the duration read from its output, unless float() raised.
Probe ==
    /\ Write(AudioPath)
    /\ \E out \in ProbeOutputs :
          IF out.kind = "text"
          THEN Raise(ValueError) /\ UNCHANGED audio
          ELSE /\ audio' = [returned |-> TRUE, duration |-> ProbedDuration(out),
                            stdout |-> out]
               /\ pc' = "v_loop"
               /\ UNCHANGED raised

\* Step 2: EdgeTTSProvider.generate_audio or OpenAITTSProvider.generate_audio, called
\* with script.to_narration()
GenerateAudio ==
    /\ pc = "v_tts"
    /\ IF opts.tts_provider = "edge"
       THEN /\ called' = called \cup {"edge"}
            /\ \/ Probe
               \/ Raise(TransportError) /\ NoIO /\ UNCHANGED audio
       ELSE /\ called' = called \cup {"openai"}
            /\ \/ "OPENAI_API_KEY" \in env /\ Probe
               \/ /\ \E e \in {HTTPStatusError(c) : c \in HttpErrorCodes}
                               \cup {TimeoutException} : Raise(e)
                  /\ NoIO
                  /\ UNCHANGED audio
    /\ spoken' = Append(spoken, ToNarration(scenes))
    /\ idx' = 0
    /\ UNCHANGED <<others, engine, document, manifest, manifest_writes, returncode, scenes, inflight, entry, env, opts, provider, returned, nScenes, clips, job, attempt>>

\* Step 3: for i, scene in enumerate(script.scenes): video_provider.generate_clip(...)
ClipLoop ==
    /\ pc = "v_loop"
    /\ IF idx < nScenes
       THEN /\ attempt' = NewAttempt(opts.video_provider)
            /\ job' = NoJob
            /\ inflight' = inflight \cup {ClipRequest(idx)}
            /\ pc' = ProviderEntry(opts.video_provider)
       ELSE /\ pc' = "c_list"
            /\ UNCHANGED <<attempt, job, inflight>>
    /\ NoIO
    /\ UNCHANGED <<others, engine, audio, document, manifest, manifest_writes, returncode, scenes, spoken, entry, env, opts, provider, raised, returned, nScenes, idx, clips, called>>

\* generate_clip has returned: clips.append(clip)
ClipDone ==
    /\ pc = "v_clip_done"
    /\ clips' = NextClips(clips, Dest)
    /\ inflight' = {r \in inflight : r.scene # idx}
    /\ idx' = idx + 1
    /\ pc' = "v_loop"
    /\ NoIO
    /\ UNCHANGED <<others, engine, audio, document, manifest, manifest_writes, returncode, scenes, spoken, entry, env, opts, provider, raised, returned, nScenes, job, attempt, called>>

(***************************************************************************)
(* pipeline.py: FallbackImageProvider.generate_clip                        *)
(***************************************************************************)
\* img.save(image_path)
FallbackImage ==
    /\ pc = "f_image"
    /\ Write(ImagePath(idx))
    /\ pc' = "f_ffmpeg"
    /\ UNCHANGED <<others, engine, audio, document, manifest, manifest_writes, returncode, scenes, spoken, inflight, entry, env, opts, provider, raised, returned, nScenes, idx, clips,
                   job, attempt, called>>

\* subprocess.run(["ffmpeg", ...], check=True)
FallbackEncode ==
    /\ pc = "f_ffmpeg"
    /\ \E rc \in ExitCodes :
          /\ returncode' = rc
          /\ IF Checked(rc)
             THEN ProviderFail(CalledProcessError) /\ NoIO
             ELSE /\ Encoded(rc, ClipPath(idx))
                  /\ pc' = "f_unlink"
                  /\ UNCHANGED <<raised, attempt>>
    /\ UNCHANGED <<others, engine, audio, document, manifest, manifest_writes, scenes, spoken, inflight, entry, env, opts, provider, returned, nScenes, idx, clips, job, called>>

FallbackScratch_Output(i) == ClipPath(i)
\* image_path.unlink()  # Clean up image
FallbackScratch(i) == ImagePath(i)

FallbackUnlink ==
    /\ pc = "f_unlink"
    /\ Unlink(FallbackScratch(idx))
    /\ attempt' = [attempt EXCEPT !.outcome = "ok"]
    /\ pc' = "v_clip_done"
    /\ UNCHANGED <<others, engine, audio, document, manifest, manifest_writes, returncode, scenes, spoken, inflight, entry, env, opts, provider, raised, returned, nScenes, idx, clips,
                   job, called>>

(***************************************************************************)
(* pipeline.py: VideoCompiler.compile                                      *)
(***************************************************************************)
\* concat.txt lists the clips
CompileList ==
    /\ pc = "c_list"
    /\ Write(ConcatFile)
    /\ pc' = "c_concat"
    /\ UNCHANGED <<others, engine, audio, document, manifest, manifest_writes, returncode, scenes, spoken, inflight, entry, env, opts, provider, raised, returned, nScenes, idx, clips,
                   job, attempt, called>>

\* ffmpeg -f concat ... temp_concat.mp4, check=True
CompileConcat ==
    /\ pc = "c_concat"
    /\ \E rc \in ExitCodes :
          /\ returncode' = rc
          /\ IF Checked(rc)
             THEN Raise(CalledProcessError) /\ NoIO
             ELSE Encoded(rc, TempVideo) /\ pc' = "c_mux" /\ UNCHANGED raised
    /\ UNCHANGED <<others, engine, audio, document, manifest, manifest_writes, scenes, spoken, inflight, entry, env, opts, provider, returned, nScenes, idx, clips, job,
                   attempt, called>>

\* ffmpeg -i temp_concat.mp4 -i voiceover.mp3 ... video_<timestamp>.mp4, check=True
CompileMux ==
    /\ pc = "c_mux"
    /\ \E rc \in ExitCodes :
          /\ returncode' = rc
          /\ IF Checked(rc)
             THEN Raise(CalledProcessError) /\ NoIO
             ELSE Encoded(rc, FinalPath) /\ pc' = "c_rm_list" /\ UNCHANGED raised
    /\ UNCHANGED <<others, engine, audio, document, manifest, manifest_writes, scenes, spoken, inflight, entry, env, opts, provider, returned, nScenes, idx, clips, job,
                   attempt, called>>

\* concat_file.unlink()
CompileUnlinkList ==
    /\ pc = "c_rm_list"
    /\ Unlink(ConcatFile)
    /\ pc' = "c_rm_temp"
    /\ UNCHANGED <<others, engine, audio, document, manifest, manifest_writes, returncode, scenes, spoken, inflight, entry, env, opts, provider, raised, returned, nScenes, idx, clips,
                   job, attempt, called>>

\* temp_video.unlink(); return output_path
CompileUnlinkTemp ==
    /\ pc = "c_rm_temp"
    /\ Unlink(TempVideo)
    /\ idx' = 1
    /\ pc' = "v_cleanup"
    /\ UNCHANGED <<others, engine, audio, document, manifest, manifest_writes, returncode, scenes, spoken, inflight, entry, env, opts, provider, raised, returned, nScenes, clips,
                   job, attempt, called>>

(***************************************************************************)
(* pipeline.py: VideoPipeline.generate, cleanup and return                 *)
(***************************************************************************)
CleanupClips_SkipLast == SubSeq(clips, 1, Len(clips) - 1)
\* for clip in clips: clip.path.unlink()
CleanupClips == clips

CleanupClip ==
    /\ pc = "v_cleanup"
    /\ idx <= Len(CleanupClips)
    /\ Unlink(CleanupClips[idx])
    /\ idx' = idx + 1
    /\ UNCHANGED <<others, engine, audio, document, manifest, manifest_writes, returncode, scenes, spoken, inflight, entry, env, opts, provider, pc, raised, returned, nScenes, clips,
                   job, attempt, called>>

\* audio.path.unlink()
CleanupAudio ==
    /\ pc = "v_cleanup"
    /\ idx > Len(CleanupClips)
    /\ Unlink(AudioPath)
    /\ pc' = "v_return"
    /\ UNCHANGED <<others, engine, audio, document, manifest, manifest_writes, returncode, scenes, spoken, inflight, entry, env, opts, provider, raised, returned, nScenes, idx, clips,
                   job, attempt, called>>

\* return final_path
VideoReturn ==
    /\ pc = "v_return"
    /\ returned' = FinalPath
    /\ pc' = "done"
    /\ NoIO
    /\ UNCHANGED <<others, engine, audio, document, manifest, manifest_writes, returncode, scenes, spoken, inflight, entry, env, opts, provider, raised, nScenes, idx, clips, job,
                   attempt, called>>

(***************************************************************************)
(* orchestrate.py: HybridPipeline.run                                      *)
(***************************************************************************)
\* Step 1: _generate_assets calls generate_theme_assets
HybridAssets ==
    /\ pc = "h_assets"
    /\ provider' = HybridProvider(env)
    /\ pc' = "a_start"
    /\ NoIO
    /\ UNCHANGED <<others, engine, audio, document, manifest, manifest_writes, returncode, scenes, spoken, inflight, entry, env, opts, raised, returned, nScenes, idx, clips, job,
                   attempt, called>>

\* Before _render_frames: nothing looked at, nothing run.  build and run are the
\* exit statuses of cargo build and cargo run (NotRun when the call was not
\* made), python the number of calls of _render_frames_python.
NotRun == -1
NoEngine == [project |-> FALSE, build |-> NotRun, run |-> NotRun, python |-> 0]

Fallback_BuildOnly(project, build, run) == ~project \/ build # 0
\* if not self.rust_project.exists() / if result.returncode != 0 (build) /
\* if result.returncode != 0 (run): the three places that call the Python renderer
Fallback(project, build, run) == ~project \/ build # 0 \/ run # 0

\* What _render_frames ran, given what it found: cargo run only after a build
\* that exited 0, cargo build only when the project exists.
Engine(project, build, run) ==
    [project |-> project,
     build |-> IF project THEN build ELSE NotRun,
     run |-> IF project /\ build = 0 THEN run ELSE NotRun,
     python |-> IF Fallback(project, build, IF build = 0 THEN run ELSE NotRun)
                THEN 1 ELSE 0]

\* Step 2: _render_frames: the Rust engine, or the Python renderer, fills
\* frames_dir.  cargo's exit statuses are read, never checked; a cargo that
\* cannot be started makes subprocess.run raise.
HybridRender ==
    /\ pc = "h_render"
    /\ \/ /\ \E project \in BOOLEAN, build \in ExitCodes, run \in ExitCodes :
                engine' = Engine(project, build, run)
          /\ Write(FramesPath)
          /\ pc' = "h_script"
          /\ UNCHANGED raised
       \/ /\ engine' = [engine EXCEPT !.project = TRUE]
          /\ Raise(FileNotFoundError)
          /\ NoIO
    /\ UNCHANGED <<others, audio, document, manifest, manifest_writes, returncode, scenes, spoken, inflight, entry, env, opts, provider, returned, nScenes, idx, clips,
                   job, attempt, called>>

\* Step 3: _generate_voiceover: script_path.write_text(script)
HybridScript ==
    /\ pc = "h_script"
    /\ Write(ScriptText)
    /\ pc' = "h_tts"
    /\ UNCHANGED <<others, engine, audio, document, manifest, manifest_writes, returncode, scenes, spoken, inflight, entry, env, opts, provider, raised, returned, nScenes, idx, clips,
                   job, attempt, called>>

\* edge_tts.Communicate(...).save(voiceover.mp3)
HybridVoiceover ==
    /\ pc = "h_tts"
    /\ called' = called \cup {"edge"}
    /\ \/ Write(AudioPath) /\ pc' = "h_compile" /\ UNCHANGED raised
       \/ Raise(TransportError) /\ NoIO
    /\ UNCHANGED <<others, engine, audio, document, manifest, manifest_writes, returncode, scenes, spoken, inflight, entry, env, opts, provider, returned, nScenes, idx, clips, job, attempt>>

\* Step 4: _compile_video: ffmpeg over the frames and the audio, check=True
HybridCompile ==
    /\ pc = "h_compile"
    /\ \E rc \in ExitCodes :
          /\ returncode' = rc
          /\ IF Checked(rc)
             THEN Raise(CalledProcessError) /\ NoIO
             ELSE Encoded(rc, FinalPath) /\ pc' = "h_return" /\ UNCHANGED raised
    /\ UNCHANGED <<others, engine, audio, document, manifest, manifest_writes, scenes, spoken, inflight, entry, env, opts, provider, returned, nScenes, idx, clips, job,
                   attempt, called>>

\* return video_path
HybridReturn ==
    /\ pc = "h_return"
    /\ returned' = FinalPath
    /\ pc' = "done"
    /\ NoIO
    /\ UNCHANGED <<others, engine, audio, document, manifest, manifest_writes, returncode, scenes, spoken, inflight, entry, env, opts, provider, raised, nScenes, idx, clips, job,
                   attempt, called>>

(***************************************************************************)
(* The runs.                                                               *)
(***************************************************************************)
NoManifest ==
    [exists |-> FALSE, backgrounds |-> << >>, characters |-> << >>, props |-> << >>]
NoFrame == [slot |-> -1, path |-> << >>, scene |-> 0, bg_idx |-> -1, bg |-> "none",
            char_idx |-> -1, char |-> "none"]

NoOpts == [video_provider |-> "none", tts_provider |-> "none", theme |-> "none"]

Init ==
    /\ entry \in {"video", "hybrid", "assets"}
    /\ env \in SUBSET Credentials
    /\ opts \in
         CASE entry = "video" ->
                 {[NoOpts EXCEPT !.video_provider = v, !.tts_provider = t] :
                     v \in {"replicate", "fallback"}, t \in {"edge", "openai"}}
           [] OTHER -> {[NoOpts EXCEPT !.theme = t] : t \in ThemeNames}
    /\ provider \in IF entry = "assets" THEN {"replicate", "openai", "placeholder"}
                    ELSE {"unset"}
    /\ pc = CASE entry = "video" -> "v_script"
              [] entry = "hybrid" -> "h_assets"
              [] OTHER -> "a_start"
    /\ files = {}
    /\ produced = {}
    /\ raised = NoError
    /\ returned = NoPath
    /\ nScenes = 0
    /\ idx = 0
    /\ clips = << >>
    /\ job = NoJob
    /\ attempt = NoAttempt
    /\ called = {}
    /\ scenes = << >>
    /\ spoken = << >>
    /\ inflight = {}
    /\ returncode = 0
    /\ document = NoDocument
    /\ audio = NoAudio
    /\ engine = NoEngine
    /\ manifest_writes = 0
    /\ manifest = NoManifest
    /\ backgrounds = << >>
    /\ characters = << >>
    /\ frame_num = 0
    /\ frame = NoFrame
    /\ pair = << >>
    /\ runs = << >>
    /\ touched = << >>

Next ==
    \/ Submit \/ Sleep \/ Poll \/ Fetch \/ WriteResult
    \/ OpenAIPost \/ OpenAIFetch \/ Placeholder
    \/ AssetsStart \/ AssetsLoop \/ AssetDone \/ WriteManifest
    \/ GenerateScript \/ SaveScript \/ GenerateAudio \/ ClipLoop \/ ClipDone
    \/ FallbackImage \/ FallbackEncode \/ FallbackUnlink
    \/ CompileList \/ CompileConcat \/ CompileMux \/ CompileUnlinkList \/ CompileUnlinkTemp
    \/ CleanupClip \/ CleanupAudio \/ VideoReturn
    \/ HybridAssets \/ HybridRender \/ HybridScript \/ HybridVoiceover
    \/ HybridCompile \/ HybridReturn

Spec == Init /\ [][Next]_vars

(***************************************************************************)
(* orchestrate.py: HybridPipeline._render_frames_python, the compositor.   *)
(* Its input is the assets directory it finds: a manifest or none, and the *)
(* listed image files that exist.                                          *)
(***************************************************************************)
MaxBackgrounds == 4
MaxCharacters == 2

\* fps = 30; duration = 75; total_frames = fps * duration
fps == 30
duration == 75
total_frames == fps * duration

BgFile(k) == <<"backgrounds", k>>       \* assets_dir / backgrounds / <name>.png
CharFile(k) == <<"characters", k>>      \* assets_dir / characters / <name>.png
Gradient == <<"gradient", 0>>           \* the image the renderer draws itself

ZeroDivisionError ==
    [type |-> "ZeroDivisionError", code |-> 0, prefix |-> "", reason |-> ""]

\* manifest = json.load(f) if manifest_path.exists() else the empty manifest
LoadedManifest == IF manifest.exists THEN manifest ELSE NoManifest

\* [Image.open(p) for p in listed if p.exists()]
LoadImages(listed) == SelectSeq(listed, LAMBDA f : f \in files)

BackgroundsOrGradient_None(b) == b
\* if not backgrounds: backgrounds = [bg]
BackgroundsOrGradient(b) == IF b = << >> THEN <<Gradient>> ELSE b

SceneTable_Gap(n) ==
    << [start |-> 0,  end |-> 3,  bg_idx |-> 0],
       [start |-> 3,  end |-> 15, bg_idx |-> 0],
       [start |-> 16, end |-> 30, bg_idx |-> IF n > 1 THEN 1 ELSE 0],
       [start |-> 30, end |-> 45, bg_idx |-> IF n > 1 THEN 1 ELSE 0],
       [start |-> 45, end |-> 60, bg_idx |-> IF n > 2 THEN 2 ELSE 0],
       [start |-> 60, end |-> 70, bg_idx |-> IF n > 1 THEN 1 ELSE 0],
       [start |-> 70, end |-> 75, bg_idx |-> IF n > 3 THEN 3 ELSE 0] >>
\* The scene table, with its bg_idx entries computed from len(backgrounds).
SceneTable(n) ==
    << [start |-> 0,  end |-> 3,  bg_idx |-> 0],
       [start |-> 3,  end |-> 15, bg_idx |-> 0],
       [start |-> 15, end |-> 30, bg_idx |-> IF n > 1 THEN 1 ELSE 0],
       [start |-> 30, end |-> 45, bg_idx |-> IF n > 1 THEN 1 ELSE 0],
       [start |-> 45, end |-> 60, bg_idx |-> IF n > 2 THEN 2 ELSE 0],
       [start |-> 60, end |-> 70, bg_idx |-> IF n > 1 THEN 1 ELSE 0],
       [start |-> 70, end |-> 75, bg_idx |-> IF n > 3 THEN 3 ELSE 0] >>

\* The least element of a non-empty set of numbers.
First(S) == CHOOSE i \in S : \A j \in S : i <= j

CurrentScene_ClosedEnd(sc, f) ==
    LET hit == {i \in 1..Len(sc) : sc[i].start * fps <= f /\ f <= sc[i].end * fps}
    IN  IF hit = {} THEN 1 ELSE First(hit)
\* time = frame_num / fps; current_scene = scenes[0]; the first scene with
\* scene["start"] <= time < scene["end"] replaces it.  The position in the table
\* (from 1) stands for the scene.  start and end are whole seconds, so the float
\* comparison agrees with the exact one on frame_num and start * fps, end * fps.
CurrentScene(sc, f) ==
    LET hit == {i \in 1..Len(sc) : sc[i].start * fps <= f /\ f < sc[i].end * fps}
    IN  IF hit = {} THEN 1 ELSE First(hit)

BgIdx_Next(scene, n) == (scene.bg_idx + 1) % n
\* bg_idx = current_scene["bg_idx"] % len(backgrounds)
BgIdx(scene, n) == scene.bg_idx % n

CharIdx_Descending(f, n) ==
    LET raw == IF n > 1 THEN f \div (total_frames \div n) ELSE 0
    IN  (n - 1) - (IF raw < n - 1 THEN raw ELSE n - 1)
\* char_idx = frame_num // (total_frames // len(characters)) if len(characters) > 1
\* else 0; char_idx = min(char_idx, len(characters) - 1)
CharIdx(f, n) ==
    LET raw == IF n > 1 THEN f \div (total_frames \div n) ELSE 0
    IN  IF raw < n - 1 THEN raw ELSE n - 1

\* if characters: char = characters[char_idx]; no character otherwise
CharOf(f) ==
    IF characters = << >> THEN [idx |-> -1, image |-> "none"]
    ELSE [idx |-> CharIdx(f, Len(characters)),
          image |-> characters[CharIdx(f, Len(characters)) + 1]]

\* str(n): the decimal digits of n >= 0, most significant first.
RECURSIVE Digits(_)
Digits(n) == IF n < 10 THEN <<n>> ELSE Append(Digits(n \div 10), n % 10)

\* Zeros in front of d up to the width w; d as it is when it is wider.
RECURSIVE ZeroPad(_, _)
ZeroPad(d, w) == IF Len(d) >= w THEN d ELSE ZeroPad(<<0>> \o d, w)

FramePath_LastThree(f) == ZeroPad(Digits(f % 1000), 5)
\* frame_path = self.frames_dir / f"frame_{frame_num:05d}.png": the digits
\* between "frame_" and ".png" stand for the path.
FramePath(f) == ZeroPad(Digits(f), 5)

\* The variables the renderer leaves alone.
renderIdle == <<entry, env, opts, provider, returned, nScenes, idx, clips, job,
                attempt, called, scenes, spoken, inflight, returncode, document, audio, engine, manifest, manifest_writes,
                pair, runs, touched>>

\* backgrounds = the listed backgrounds that exist
LoadBackgrounds ==
    /\ pc = "r_backgrounds"
    /\ backgrounds' = LoadImages(LoadedManifest.backgrounds)
    /\ pc' = "r_gradient"
    /\ NoIO
    /\ UNCHANGED <<renderIdle, raised, characters, frame_num, frame>>

\* the gradient takes the place of an empty list
GradientFallback ==
    /\ pc = "r_gradient"
    /\ backgrounds' = BackgroundsOrGradient(backgrounds)
    /\ pc' = "r_characters"
    /\ NoIO
    /\ UNCHANGED <<renderIdle, raised, characters, frame_num, frame>>

\* characters = the listed characters that exist
LoadCharacters ==
    /\ pc = "r_characters"
    /\ characters' = LoadImages(LoadedManifest.characters)
    /\ frame_num' = 0
    /\ pc' = "r_frame"
    /\ NoIO
    /\ UNCHANGED <<renderIdle, raised, backgrounds, frame>>

\* One iteration of for frame_num in range(total_frames): pick the scene, the
\* background, the character; save the frame in its slot.
RenderFrame ==
    /\ pc = "r_frame"
    /\ frame_num < total_frames
    /\ IF backgrounds = << >>
       THEN Raise(ZeroDivisionError) /\ NoIO /\ UNCHANGED <<frame, frame_num>>
       ELSE LET sc == SceneTable(Len(backgrounds))
                cur == CurrentScene(sc, frame_num)
                bg_idx == BgIdx(sc[cur], Len(backgrounds))
            IN  /\ frame' = [slot |-> frame_num,
                             path |-> FramePath(frame_num),
                             scene |-> cur,
                             bg_idx |-> bg_idx,
                             bg |-> backgrounds[bg_idx + 1],
                             char_idx |-> CharOf(frame_num).idx,
                             char |-> CharOf(frame_num).image]
                /\ Write(FramesPath)
                /\ frame_num' = frame_num + 1
                /\ UNCHANGED <<pc, raised>>
    /\ UNCHANGED <<renderIdle, backgrounds, characters>>

\* range(total_frames) is exhausted: _render_frames_python returns
RenderReturn ==
    /\ pc = "r_frame"
    /\ frame_num = total_frames
    /\ pc' = "r_done"
    /\ NoIO
    /\ UNCHANGED <<renderIdle, raised, backgrounds, characters, frame_num, frame>>

\* The manifests a theme's generation can have left, up to the bounds.
Manifests ==
    {[exists |-> TRUE,
      backgrounds |-> [k \in 1..nb |-> BgFile(k)],
      characters |-> [k \in 1..nc |-> CharFile(k)],
      props |-> << >>] :
        nb \in 0..MaxBackgrounds, nc \in 0..MaxCharacters}

Listed(m) ==
    {m.backgrounds[k] : k \in DOMAIN m.backgrounds}
        \cup {m.characters[k] : k \in DOMAIN m.characters}

InitRender ==
    /\ entry = "render"
    /\ env = {}
    /\ opts = NoOpts
    /\ provider = "unset"
    /\ pc = "r_backgrounds"
    /\ manifest \in Manifests \cup {NoManifest}
    /\ files \in {present \cup (IF manifest.exists THEN {ManifestPath} ELSE {}) :
                     present \in SUBSET Listed(manifest)}
    /\ produced = {}
    /\ raised = NoError
    /\ returned = NoPath
    /\ nScenes = 0
    /\ idx = 0
    /\ clips = << >>
    /\ job = NoJob
    /\ attempt = NoAttempt
    /\ called = {}
    /\ scenes = << >>
    /\ spoken = << >>
    /\ inflight = {}
    /\ returncode = 0
    /\ document = NoDocument
    /\ audio = NoAudio
    /\ engine = NoEngine
    /\ manifest_writes = 0
    /\ backgrounds = << >>
    /\ characters = << >>
    /\ frame_num = 0
    /\ frame = NoFrame
    /\ pair = << >>
    /\ runs = << >>
    /\ touched = << >>

NextRender ==
    \/ LoadBackgrounds \/ GradientFallback \/ LoadCharacters
    \/ RenderFrame \/ RenderReturn

SpecRender == InitRender /\ [][NextRender]_vars

(***************************************************************************)
(* generate_assets.py: two ImageGenerator objects, each constructed with   *)
(* a provider argument in an environment, serving the same requests side   *)
(* by side.  Each call's outcome is the environment's, per generator.      *)
(***************************************************************************)
MaxRequests == 3

Generators == {1, 2}

\* ImageGenerator.__init__: provider, and the tokens os.getenv finds; choice is
\* the history of the variants generate selected, errors the number of its
\* calls that raised.
NewGenerator(p, e) == [provider |-> p, tokens |-> e, choice |-> << >>, errors |-> 0]

ResolveFor_AfterError(g) ==
    IF pair[g].errors > 0 THEN "placeholder"
    ELSE IF pair[g].provider = "replicate" /\ "REPLICATE_API_TOKEN" \in pair[g].tokens
         THEN "replicate"
    ELSE IF pair[g].provider = "openai" /\ "OPENAI_API_KEY" \in pair[g].tokens
         THEN "openai"
    ELSE "placeholder"
\* generate's chain reads self.provider, self.replicate_token, self.openai_key
ResolveFor(g) == Resolve(pair[g].provider, pair[g].tokens)

\* The variables the pair leaves alone.
pairIdle == <<entry, env, opts, provider, files, produced, raised, returned, nScenes,
              idx, clips, job, attempt, called, scenes, spoken, inflight, returncode, document, audio, engine,
              manifest, manifest_writes, backgrounds, characters, frame_num, frame, runs, touched>>

\* Both generators get the next generate call and select their variant.
PairGenerate ==
    /\ pc = "p_generate"
    /\ \A g \in Generators : Len(pair[g].choice) < MaxRequests
    /\ pair' = [g \in Generators |->
                   [pair[g] EXCEPT !.choice = Append(@, ResolveFor(g))]]
    /\ pc' = "p_settle"
    /\ UNCHANGED pairIdle

\* Both calls end: a real provider's call may have raised, in either generator.
PairSettle ==
    /\ pc = "p_settle"
    /\ \E failed \in SUBSET {g \in Generators :
                               pair[g].choice[Len(pair[g].choice)] # "placeholder"} :
          pair' = [g \in Generators |->
                      IF g \in failed THEN [pair[g] EXCEPT !.errors = @ + 1]
                      ELSE pair[g]]
    /\ pc' = "p_generate"
    /\ UNCHANGED pairIdle

InitPair ==
    /\ entry = "pair"
    /\ env = {}
    /\ opts = NoOpts
    /\ provider = "unset"
    /\ pc = "p_generate"
    /\ pair \in [Generators -> {NewGenerator(p, e) :
                                  p \in {"replicate", "openai", "placeholder"},
                                  e \in SUBSET RealKeys}]
    /\ files = {}
    /\ produced = {}
    /\ raised = NoError
    /\ returned = NoPath
    /\ nScenes = 0
    /\ idx = 0
    /\ clips = << >>
    /\ job = NoJob
    /\ attempt = NoAttempt
    /\ called = {}
    /\ scenes = << >>
    /\ spoken = << >>
    /\ inflight = {}
    /\ returncode = 0
    /\ document = NoDocument
    /\ audio = NoAudio
    /\ engine = NoEngine
    /\ manifest_writes = 0
    /\ manifest = NoManifest
    /\ backgrounds = << >>
    /\ characters = << >>
    /\ frame_num = 0
    /\ frame = NoFrame
    /\ runs = << >>
    /\ touched = << >>

NextPair == PairGenerate \/ PairSettle

SpecPair == InitPair /\ [][NextPair]_vars

(***************************************************************************)
(* Two orchestrator runs in one event loop.  A run gives up control only   *)
(* at an await; what it does between two awaits is one step.  The output   *)
(* directory of a run is its constructor argument, ./output by default.    *)
(***************************************************************************)
Runs == {1, 2}

\* Path("./output"), the default of both constructors, and another directory.
OutputDirs == {"./output", "./elsewhere"}

\* datetime.now() to the second, as far as two runs can tell it apart.
Stamps == {0, 1}

\* self.output_dir / <name>
Under(r, f) == <<runs[r].output_dir>> \o f

\* The run r has written or deleted the paths P.
Touch(r, P) == touched' = [touched EXCEPT ![r] = @ \cup {Under(r, f) : f \in P}]

At(r, loc) == runs[r].pc = loc
Goto(r, loc) == runs' = [runs EXCEPT ![r].pc = loc]

\* The variables the concurrent runs leave alone.
runsIdle == <<entry, env, opts, provider, pc, files, produced, raised, returned,
              nScenes, idx, clips, job, attempt, called, scenes, spoken, inflight,
              returncode, document, audio, engine, manifest, manifest_writes, backgrounds, characters, frame_num, frame, pair>>

\* generate_script has answered: the script is saved under a time-stamped name,
\* then generate_audio is awaited.
RunScript(r) ==
    /\ At(r, "script")
    /\ Touch(r, {<<"script_json", runs[r].stamp>>})
    /\ Goto(r, "audio")
    /\ UNCHANGED runsIdle

\* generate_audio saves output_dir / voiceover.mp3
RunAudio(r) ==
    /\ At(r, "audio")
    /\ Touch(r, {AudioPath})
    /\ Goto(r, "clips")
    /\ UNCHANGED runsIdle

\* The awaited generate_clip for the next scene writes output_dir / clip_<i>.mp4
RunClip(r) ==
    /\ At(r, "clips")
    /\ runs[r].idx < runs[r].n
    /\ Touch(r, {ClipPath(runs[r].idx)})
    /\ runs' = [runs EXCEPT ![r].idx = @ + 1]
    /\ UNCHANGED runsIdle

\* After the last clip nothing is awaited: compile writes concat.txt,
\* temp_concat.mp4 and the time-stamped video and unlinks the first two; the
\* cleanup unlinks every clip and voiceover.mp3.
RunCompile(r) ==
    /\ At(r, "clips")
    /\ runs[r].idx = runs[r].n
    /\ Touch(r, {ConcatFile, TempVideo, <<"final", runs[r].stamp>>, AudioPath}
                   \cup {ClipPath(i) : i \in 0..(runs[r].n - 1)})
    /\ Goto(r, "done")
    /\ UNCHANGED runsIdle

\* HybridPipeline.run, Step 1: generate_theme_assets fills output_dir / assets
RunAssets(r) ==
    /\ At(r, "assets")
    /\ Touch(r, AssetDirs \cup {ManifestPath})
    /\ Goto(r, "render")
    /\ UNCHANGED runsIdle

\* Step 2: the frames go to output_dir / frames / frame_<n>.png
RunRender(r) ==
    /\ At(r, "render")
    /\ Touch(r, {FramesPath})
    /\ Goto(r, "voiceover")
    /\ UNCHANGED runsIdle

\* Step 3: script.txt is written, edge-tts saves output_dir / voiceover.mp3
RunVoiceover(r) ==
    /\ At(r, "voiceover")
    /\ Touch(r, {ScriptText, AudioPath})
    /\ Goto(r, "encode")
    /\ UNCHANGED runsIdle

\* Step 4: ffmpeg writes the time-stamped video
RunEncode(r) ==
    /\ At(r, "encode")
    /\ Touch(r, {<<"final", runs[r].stamp>>})
    /\ Goto(r, "done")
    /\ UNCHANGED runsIdle

\* VideoPipeline(...) or HybridPipeline(...), with the caller's output_dir
NewRuns ==
    {[kind |-> "video", output_dir |-> d, stamp |-> t, pc |-> "script", idx |-> 0, n |-> n] :
        d \in OutputDirs, t \in Stamps, n \in 1..MaxScenes}
    \cup
    {[kind |-> "hybrid", output_dir |-> d, stamp |-> t, pc |-> "assets", idx |-> 0, n |-> 0] :
        d \in OutputDirs, t \in Stamps}

InitRuns ==
    /\ entry = "runs"
    /\ env = {}
    /\ opts = NoOpts
    /\ provider = "unset"
    /\ pc = "gathered"
    /\ runs \in [Runs -> NewRuns]
    /\ touched = [r \in Runs |-> {}]
    /\ files = {}
    /\ produced = {}
    /\ raised = NoError
    /\ returned = NoPath
    /\ nScenes = 0
    /\ idx = 0
    /\ clips = << >>
    /\ job = NoJob
    /\ attempt = NoAttempt
    /\ called = {}
    /\ scenes = << >>
    /\ spoken = << >>
    /\ inflight = {}
    /\ returncode = 0
    /\ document = NoDocument
    /\ audio = NoAudio
    /\ engine = NoEngine
    /\ manifest_writes = 0
    /\ manifest = NoManifest
    /\ backgrounds = << >>
    /\ characters = << >>
    /\ frame_num = 0
    /\ frame = NoFrame
    /\ pair = << >>

NextRuns ==
    \E r \in Runs :
        \/ RunScript(r) \/ RunAudio(r) \/ RunClip(r) \/ RunCompile(r)
        \/ RunAssets(r) \/ RunRender(r) \/ RunVoiceover(r) \/ RunEncode(r)

SpecRuns == InitRuns /\ [][NextRuns]_vars

(***************************************************************************)
(* orchestrate.py: the two selections of the frame loop on their own, the  *)
(* scene lookup and the character selection.  The lookup is a function of  *)
(* the scene list and the frame number; here it runs over the built-in     *)
(* list and the lists that lack one of its scenes, which are the lists on  *)
(* which the no-match branch is taken.  The selection is a function of the *)
(* number of characters loaded and the frame number; here it runs over     *)
(* every number of characters a theme's generation can leave.              *)
(***************************************************************************)
\* The most characters a theme declares.
MostCharacters ==
    LET counts == {Len(THEMES[t].characters) : t \in DOMAIN THEMES}
    IN  CHOOSE c \in counts : \A d \in counts : d <= c

\* The character lists the renderer can have loaded.
CharacterLists == {[k \in 1..n |-> CharFile(k)] : n \in 0..MostCharacters}

\* The list without its i-th scene.
WithoutScene(sc, i) == SubSeq(sc, 1, i - 1) \o SubSeq(sc, i + 1, Len(sc))

\* The built-in scene list and the lists one scene short of it.
SceneLists ==
    {SceneTable(MaxBackgrounds)}
        \cup {WithoutScene(SceneTable(MaxBackgrounds), i) :
                 i \in 1..Len(SceneTable(MaxBackgrounds))}

\* scene["start"] <= time < scene["end"] for some scene of the list
Matched(sc, f) ==
    \E i \in 1..Len(sc) : sc[i].start * fps <= f /\ f < sc[i].end * fps

\* The variables the lookup leaves alone.
lookupIdle == <<entry, env, opts, provider, files, produced, raised, returned, nScenes,
                idx, clips, job, attempt, called, spoken, inflight, returncode, document, audio, engine,
                manifest, manifest_writes, backgrounds, pair, runs, touched>>

\* One iteration of the frame loop, the two selections only: frame.scene is the
\* position in the list of the scene the iteration settles on.
LookupFrame ==
    /\ pc = "l_frame"
    /\ frame_num < total_frames
    /\ frame' = [slot |-> frame_num,
                 path |-> << >>,
                 scene |-> CurrentScene(scenes, frame_num),
                 bg_idx |-> -1, bg |-> "none",
                 char_idx |-> CharOf(frame_num).idx,
                 char |-> CharOf(frame_num).image]
    /\ frame_num' = frame_num + 1
    /\ UNCHANGED <<lookupIdle, pc, scenes, characters>>

\* range(total_frames) is exhausted
LookupReturn ==
    /\ pc = "l_frame"
    /\ frame_num = total_frames
    /\ pc' = "l_done"
    /\ UNCHANGED <<lookupIdle, scenes, characters, frame_num, frame>>

InitLookup ==
    /\ entry = "lookup"
    /\ env = {}
    /\ opts = NoOpts
    /\ provider = "unset"
    /\ pc = "l_frame"
    /\ scenes \in SceneLists
    /\ characters \in CharacterLists
    /\ files = {}
    /\ produced = {}
    /\ raised = NoError
    /\ returned = NoPath
    /\ nScenes = 0
    /\ idx = 0
    /\ clips = << >>
    /\ job = NoJob
    /\ attempt = NoAttempt
    /\ called = {}
    /\ spoken = << >>
    /\ inflight = {}
    /\ returncode = 0
    /\ document = NoDocument
    /\ audio = NoAudio
    /\ engine = NoEngine
    /\ manifest_writes = 0
    /\ manifest = NoManifest
    /\ backgrounds = << >>
    /\ frame_num = 0
    /\ frame = NoFrame
    /\ pair = << >>
    /\ runs = << >>
    /\ touched = << >>

NextLookup == LookupFrame \/ LookupReturn

SpecLookup == InitLookup /\ [][NextLookup]_vars

(***************************************************************************)
(* Properties.                                                             *)
(***************************************************************************)
CredentialedServices == {"anthropic", "replicate", "openai"}

\* Every poll so far reported a pending status, the last of them after the
\* wall-clock budget had been exceeded.
PendingPastBudget ==
    /\ job.polls >= 1
    /\ job.polls = job.pending
    /\ job.sleeps = job.polls
    /\ Elapsed > PollBudget

\* C1: with a backend that reports a pending status on every poll, the poller is
\* out of its loop, with a TimeoutError, once the wall-clock budget is exceeded.
\* As stated; the code has no budget and goes on to the next sleep.
C1_TimeoutOnceBudgetExceeded ==
    PendingPastBudget => (pc = "aborted" /\ ErrorKind(raised) = "TimeoutError")

\* C2: after N pending polls and 'succeeded' on poll N+1 the poller has polled
\* exactly N+1 times, fetched, written the destination, and only then returned
\* success; it never fetches before it has observed 'succeeded'.
C2_SuccessAfterNPlusOnePolls ==
    /\ job.fetched => job.status = "succeeded"
    /\ pc \in {"fetch", "write"} =>
          /\ job.status = "succeeded"
          /\ job.other = 0 => job.polls = job.pending + 1
          /\ Dest \notin files
          /\ attempt.outcome = "pending"
    /\ (attempt.variant = "replicate" /\ (pc = AfterProvider \/ attempt.outcome = "ok")) =>
          /\ attempt.outcome = "ok"
          /\ job.status = "succeeded"
          /\ job.fetched
          /\ job.sleeps = job.polls
          /\ job.other = 0 => job.polls = job.pending + 1
          /\ pc = AfterProvider => Dest \in files

C2_Witness ==
    /\ attempt.variant = "replicate"
    /\ pc = AfterProvider
    /\ job.pending = 2
    /\ job.other = 0
    /\ job.polls = 3
    /\ Dest \in files

\* C3: once a poll has observed 'failed', polling has stopped, nothing was fetched
\* or written to the destination, and the run has ended with the generation
\* failure (the code's RuntimeError) whose message ends with the reported reason.
C3_FailedRaisesReportedReason ==
    job.status = "failed" =>
        /\ pc = "aborted"
        /\ ~job.fetched
        /\ Dest \notin files
        /\ attempt.outcome = "error"
        /\ raised = attempt.err
        /\ ErrorKind(raised) = "GenerationError"
        /\ raised.reason = job.error

C3_Witness ==
    /\ job.status = "failed"
    /\ job.error = "CUDA out of memory"
    /\ job.polls = 2
    /\ pc = "aborted"

\* C4: a configured real provider that was attempted and failed with a
\* GenerationError or a TimeoutError ends the request with that very error: the
\* placeholder is not run for it and nothing is written to its destination.
C4_ProviderFailurePropagates ==
    (/\ attempt.variant \in {"replicate", "openai"}
     /\ attempt.outcome = "error"
     /\ ErrorKind(attempt.err) \in {"GenerationError", "TimeoutError"}) =>
        /\ pc = "aborted"
        /\ raised = attempt.err
        /\ Dest \notin files
        /\ returned = NoPath
        /\ (entry # "video" /\ attempt.variant = "openai") => "replicate" \notin called

\* Preferences [replicate: not configured, openai: configured, placeholder]; openai fails.
C4_Witness ==
    /\ entry = "assets"
    /\ provider = "openai"
    /\ "REPLICATE_API_TOKEN" \notin env
    /\ attempt.variant = "openai"
    /\ attempt.outcome = "error"
    /\ ErrorKind(attempt.err) = "GenerationError"
    /\ pc = "aborted"

\* C5: the resolver serves a request with a real provider whose credentials are
\* present whenever there is one; the placeholder serves it only when no real
\* provider is configured.  As stated; the code looks at the requested provider only.
C5_PlaceholderOnlyWhenNothingConfigured ==
    (/\ entry \in {"assets", "hybrid"}
     /\ provider \in {"replicate", "openai"} \/ entry = "hybrid"
     /\ attempt.variant = "placeholder") => env \cap RealKeys = {}

\* C6: a provider whose submit request is rejected for its credentials is treated
\* as unconfigured: the run does not end with that error.  As stated; the code
\* lets raise_for_status' exception end the run.
C6_AuthErrorTriesNextPreference ==
    ~(/\ attempt.variant \in {"replicate", "openai"}
      /\ attempt.outcome = "error"
      /\ ErrorKind(attempt.err) = "AuthError"
      /\ pc = "aborted"
      /\ raised = attempt.err)

\* The providers main() of pipeline.py builds: FallbackImageProvider and EdgeTTSProvider.
DefaultProviders ==
    entry = "video" => (opts.video_provider = "fallback" /\ opts.tts_provider = "edge")

\* C7: with no credential configured, no request goes to a service that needs one
\* and no stage ends the run for the lack of a credential.  As stated; the script
\* stage of pipeline.py has no placeholder.
C7_ZeroCredentialsRunCompletes ==
    (env = {} /\ DefaultProviders) =>
        /\ called \cap CredentialedServices = {}
        /\ pc = "aborted" => ErrorKind(raised) # "AuthError"

\* C8: when VideoPipeline.generate returns for a script of n >= 1 scenes, there is
\* exactly one final artifact, it is the returned path, and every per-scene clip
\* and the voice track have been deleted.
C8_OneFinalArtifactIntermediatesDeleted ==
    (entry = "video" /\ pc = "done" /\ nScenes >= 1) =>
        /\ returned = FinalPath
        /\ {f \in files : f[1] = "final"} = {FinalPath}
        /\ Len(clips) = nScenes
        /\ \A i \in 0..(nScenes - 1) : ClipPath(i) \in produced /\ ClipPath(i) \notin files
        /\ AudioPath \in produced /\ AudioPath \notin files

C8_Witness ==
    /\ entry = "video"
    /\ pc = "done"
    /\ nScenes = 3
    /\ opts.video_provider = "fallback"
    /\ returned = FinalPath

\* Final assembly has returned successfully.
AssemblyReturned == pc \in {"v_cleanup", "v_return", "h_return", "done"}

\* The provider-internal scratch image of FallbackImageProvider is no stage artifact.
IsArtifact(f) == f[1] # "png"
IsIntermediate(f) == f[1] \in {"script_json", "script_txt", "voiceover", "clip", "frames"}

\* C9: until final assembly has returned successfully every script file, voice
\* track and per-scene clip (or frame set) written so far is still present; after
\* a failed stage every artifact written up to the failure is still present.
C9_NothingDeletedBeforeAssemblyReturns ==
    /\ ~AssemblyReturned => \A f \in produced : IsIntermediate(f) => f \in files
    /\ pc = "aborted" => \A f \in produced : IsArtifact(f) => f \in files

\* The audio mux failed after two clips and the concatenation were written.
C9_Witness ==
    /\ entry = "video"
    /\ pc = "aborted"
    /\ ErrorKind(raised) = "AssemblyError"
    /\ {ScriptPath, AudioPath, ClipPath(0), ClipPath(1), ConcatFile, TempVideo} \subseteq files

\* C10: after a run that returned the final artifact, only the final artifact
\* remains under the output directory.  As stated; VideoPipeline.generate keeps
\* the script JSON and HybridPipeline.run deletes nothing.
C10_OnlyFinalArtifactRemains ==
    (pc = "done" /\ returned = FinalPath) => files = {FinalPath}

(***************************************************************************)
(* The stages of the two orchestrators.                                    *)
(***************************************************************************)
PollerLocations == {"submit", "sleep", "poll", "fetch", "write"}

\* VideoPipeline.generate: "# Step 1" .. "# Step 4", then cleanup and return (5);
\* 6 once an exception has left it.
VideoStage(p) ==
    CASE p \in {"v_script", "v_save"} -> 1
      [] p = "v_tts" -> 2
      [] p \in {"v_loop", "v_clip_done", "f_image", "f_ffmpeg", "f_unlink"}
               \cup PollerLocations -> 3
      [] p \in {"c_list", "c_concat", "c_mux", "c_rm_list", "c_rm_temp"} -> 4
      [] p \in {"v_cleanup", "v_return", "done"} -> 5
      [] OTHER -> 6

\* HybridPipeline.run: "# Step 1" .. "# Step 4", then return (5); 6 once an
\* exception has left it.
HybridStage(p) ==
    CASE p \in {"h_assets", "a_start", "a_loop", "a_post", "a_manifest",
                "o_post", "o_fetch", "placeholder"} \cup PollerLocations -> 1
      [] p = "h_render" -> 2
      [] p \in {"h_script", "h_tts"} -> 3
      [] p = "h_compile" -> 4
      [] p \in {"h_return", "done"} -> 5
      [] OTHER -> 6

StageAt(p) == IF entry = "video" THEN VideoStage(p) ELSE HybridStage(p)
Orchestrated == entry \in {"video", "hybrid"}

\* C11: once a stage of an orchestrated run has raised, the run is over: the error
\* is the caller's, nothing is returned, no final artifact was or will be produced,
\* no step follows (no later stage starts), and no step of the run ever goes back
\* to an earlier stage.
C11_FailureAbortsRun ==
    /\ [](Orchestrated =>
            /\ (raised # NoError) <=> (pc = "aborted")
            /\ pc = "aborted" =>
                  /\ returned = NoPath
                  /\ FinalPath \notin produced
                  /\ (attempt.outcome = "error" => raised = attempt.err))
    /\ [][Orchestrated => (raised = NoError /\ StageAt(pc') >= StageAt(pc))]_vars

\* An encoder failure in the assembly stage of a video run, after the script,
\* the voice track and at least one clip were produced.
C11_Witness ==
    /\ entry = "video"
    /\ pc = "aborted"
    /\ raised = CalledProcessError
    /\ {ScriptPath, AudioPath, ClipPath(0), ConcatFile} \subseteq produced

\* What the four stages have done so far, read off the run's history.
ScriptPersisted == ScriptPath \in produced \/ ScriptText \in produced
SpeechStarted == spoken # << >> \/ "edge" \in called
VisualRequested == attempt.variant # "none" \/ FramesPath \in produced
AssemblyStarted == pc \in {"c_list", "c_concat", "c_mux", "h_compile"}
VisualsExist ==
    IF entry = "video" THEN \A i \in 0..(nScenes - 1) : ClipPath(i) \in files
    ELSE FramesPath \in files

\* C12: in every orchestrated run the stages come in the order script generation,
\* speech synthesis, visual generation, assembly, each after its predecessor's
\* output was written: the script is persisted before speech synthesis starts,
\* the voice track exists before any visual is requested, and every visual exists
\* before assembly starts.
\* As stated; HybridPipeline.run requests and renders its visuals first.
C12_FourStagesInOrder ==
    Orchestrated =>
        /\ SpeechStarted => ScriptPersisted
        /\ VisualRequested => AudioPath \in produced
        /\ AssemblyStarted => VisualsExist

\* C13: in a video run at most one generate_clip call is in flight; while the call
\* for scene i is in flight the clips of scenes 0..i-1 are stored and listed, in
\* scene order; and assembly starts with no call in flight and exactly one clip
\* per scene, in scene-index order.
C13_ClipsSequentialInSceneOrder ==
    entry = "video" =>
        /\ Cardinality(inflight) <= 1
        /\ \A r \in inflight :
              /\ r.scene = idx
              /\ clips = [j \in 1..r.scene |-> ClipPath(j - 1)]
              /\ \A j \in 0..(r.scene - 1) : ClipPath(j) \in files
        /\ AssemblyStarted =>
              /\ inflight = {}
              /\ clips = [j \in 1..nScenes |-> ClipPath(j - 1)]
              /\ \A j \in 0..(nScenes - 1) : ClipPath(j) \in files

\* Assembly starts over the clips of a script of several scenes.
C13_Witness ==
    /\ entry = "video"
    /\ pc = "c_list"
    /\ nScenes >= 2
    /\ Len(clips) = nScenes

RECURSIVE Offset(_, _)
\* Where the narration of the i-th scene starts in the spoken text (from 0): after
\* the narrations before it and one blank for each.
Offset(sc, i) ==
    IF i = 1 THEN 0 ELSE Offset(sc, i - 1) + Len(sc[i - 1].narration) + 1

\* C14: generate_audio is called once, with a text made of the narration of every
\* scene of the script, each once, in scene order, with one blank between
\* neighbours and nothing else.
C14_SpokenIsNarrationsInOrder ==
    (entry = "video" /\ spoken # << >>) =>
        LET t == spoken[1]
            n == Len(scenes)
        IN  /\ Len(spoken) = 1
            /\ Len(t) = IF n = 0 THEN 0 ELSE Offset(scenes, n) + Len(scenes[n].narration)
            /\ \A i \in 1..n :
                  SubSeq(t, Offset(scenes, i) + 1,
                            Offset(scenes, i) + Len(scenes[i].narration))
                     = scenes[i].narration
            /\ \A i \in 2..n : t[Offset(scenes, i)] = " "

\* The text of a script of three scenes, the first two with different narrations.
C14_Witness ==
    /\ entry = "video"
    /\ spoken # << >>
    /\ Len(scenes) = 3
    /\ scenes[1].narration # scenes[2].narration
    /\ pc # "v_tts"

\* The timeline rules of the data model: every scene has a positive length, no
\* scene starts before its predecessor ends, the last scene ends at the declared
\* total duration.
ValidTimeline(sc) ==
    /\ \A i \in 1..Len(sc) : sc[i].end_time > sc[i].start_time
    /\ \A i \in 1..(Len(sc) - 1) : sc[i + 1].start_time >= sc[i].end_time
    /\ sc # << >> => sc[Len(sc)].end_time = TotalDuration

\* C15: a scene list that breaks a timeline rule ends the run with a
\* ValidationError before generate_audio or any generate_clip is called, and no
\* generate_clip call carries a duration of zero or less.
\* As stated; the code has no validation of the scene list.
C15_InvalidTimelineRejected ==
    entry = "video" =>
        /\ ~ValidTimeline(scenes) =>
              /\ pc = "aborted"
              /\ ErrorKind(raised) = "ValidationError"
              /\ spoken = << >>
              /\ inflight = {}
        /\ \A r \in inflight : r.duration > 0

\* The scenes of table sc whose interval [start, end) holds the time of frame f:
\* start <= f / fps < end, multiplied through by fps.
ScenesAt(sc, f) ==
    {i \in 1..Len(sc) : sc[i].start * fps <= f /\ f < sc[i].end * fps}

\* C16: every frame the compositor saves was composed for the one scene whose
\* [start, end) holds the frame's time f / fps, on that scene's background; so the
\* frame at a scene boundary belongs to the later scene and the frame before it to
\* the earlier one.
C16_ActiveSceneIsUniqueContainingScene ==
    frame.slot >= 0 =>
        LET sc == SceneTable(Len(backgrounds))
        IN  /\ frame.slot < total_frames
            /\ ScenesAt(sc, frame.slot) = {frame.scene}
            /\ frame.bg = backgrounds[(sc[frame.scene].bg_idx % Len(backgrounds)) + 1]

\* The frame at the boundary of the second and third scene (15 s at 30 fps), with
\* two backgrounds loaded: it shows the third scene's background, the second of
\* the two.
C16_Witness ==
    /\ frame.slot = 15 * fps
    /\ frame.scene = 3
    /\ Len(backgrounds) = 2
    /\ frame.bg = backgrounds[2]
    /\ backgrounds[1] # backgrounds[2]

\* No background image can be loaded: there is no manifest, or it lists no
\* background, or none of the listed background files exists.
NoUsableBackground ==
    \A k \in DOMAIN LoadedManifest.backgrounds : LoadedManifest.backgrounds[k] \notin files

\* C17: the list of backgrounds the frame loop works with is never empty, and with
\* no usable background the compositor does not raise, draws every frame it saves
\* on the generated gradient, and returns only after the last frame of the timeline.
C17_GradientWhenNoBackgroundUsable ==
    /\ pc \in {"r_characters", "r_frame", "r_done"} => backgrounds # << >>
    /\ NoUsableBackground =>
          /\ pc # "aborted"
          /\ raised = NoError
          /\ frame.slot >= 0 => (frame.bg = Gradient /\ frame.slot = frame_num - 1)
          /\ pc = "r_done" => frame.slot = total_frames - 1

\* The renderer has returned after drawing the whole timeline on the gradient, the
\* manifest listing backgrounds none of which exists.
C17_Witness ==
    /\ pc = "r_done"
    /\ manifest.exists
    /\ Len(manifest.backgrounds) >= 2
    /\ NoUsableBackground
    /\ frame.bg = Gradient
    /\ frame.slot = total_frames - 1

\* C18: once an encoder process has exited with a nonzero status (encoding a clip,
\* concatenating, muxing the audio, or encoding the frame sequence) the run has
\* raised CalledProcessError out of that stage: no path is returned, and the
\* cleanup after success has not run, every clip, the voice track and the other
\* stage artifacts written so far being still in place.
C18_EncoderFailureIsFatal ==
    returncode # 0 =>
        /\ pc = "aborted"
        /\ raised = CalledProcessError
        /\ returned = NoPath
        /\ FinalPath \notin files
        /\ \A f \in produced : IsArtifact(f) => f \in files

\* The audio mux of a video run fails after two clips were encoded.
C18_Witness ==
    /\ returncode # 0
    /\ entry = "video"
    /\ TempVideo \in files
    /\ Len(clips) >= 2
    /\ AudioPath \in files

SameConfiguration(g, h) ==
    pair[g].provider = pair[h].provider /\ pair[g].tokens = pair[h].tokens

IsIntermediatePath(p) == p[2] \in {"voiceover", "clip", "concat", "temp_concat", "frames"}

\* C20: of two runs executing concurrently, no voice track, clip, concat list,
\* temporary video or frame slot is written or deleted by both.
\* As stated; nothing makes a run's output directory private.
C20_NoSharedIntermediatePath ==
    entry = "runs" =>
        \A p \in touched[1] \cap touched[2] : ~IsIntermediatePath(p)

GeneratesAssets == entry \in {"assets", "hybrid"}

\* The names of a category's assets in the order the theme declares them.
DeclaredNames(t, cat) ==
    LET decl == IF cat = "backgrounds" THEN THEMES[t].backgrounds
                ELSE IF cat = "characters" THEN THEMES[t].characters
                ELSE THEMES[t].props
    IN  [i \in 1..Len(decl) |-> decl[i].name]

Lists(listed, t, cat) ==
    /\ Len(listed) = Len(DeclaredNames(t, cat))
    /\ \A i \in 1..Len(listed) : listed[i] = <<cat, DeclaredNames(t, cat)[i]>>

\* C21: a run that generates assets writes the manifest at most once, and once
\* when it completes for a known theme; when it is written every asset of the
\* theme has been generated and it lists each category in the theme's declared
\* order; and no later step of the run changes or removes it.
C21_ManifestWrittenOnceAfterAssets ==
    /\ [](GeneratesAssets =>
            /\ manifest_writes <= 1
            /\ manifest.exists <=> manifest_writes = 1
            /\ manifest.exists =>
                  /\ ManifestPath \in files
                  /\ \A k \in 1..Len(ThemeAssets(opts.theme)) : AssetPath(k) \in files
                  /\ Lists(manifest.backgrounds, opts.theme, "backgrounds")
                  /\ Lists(manifest.characters, opts.theme, "characters")
                  /\ Lists(manifest.props, opts.theme, "props")
            /\ (pc = "done" /\ opts.theme \in DOMAIN THEMES) => manifest_writes = 1)
    /\ [][(GeneratesAssets /\ manifest.exists) =>
             (manifest' = manifest /\ manifest_writes' = manifest_writes
                /\ ManifestPath \in files')]_vars

\* A hybrid run has returned its video, the manifest of its theme written before
\* the frames were rendered.
C21_Witness ==
    /\ entry = "hybrid"
    /\ pc = "done"
    /\ manifest_writes = 1
    /\ manifest.exists
    /\ Len(manifest.characters) = 2
    /\ FramesPath \in files

\* Reading a scene dictionary back the way generate_script builds a Scene from
\* one: the five keys by name, text_overlay by get; the index is the position.
LoadScene(d) ==
    [start_time |-> d.start_time, end_time |-> d.end_time, narration |-> d.narration,
     visual_prompt |-> d.visual_prompt, text_overlay |-> d.text_overlay]

LoadScenes(doc) == [i \in 1..Len(doc.scenes) |-> LoadScene(doc.scenes[i])]

C23_EveryPollPrecededBySleep ==
    /\ job.polls <= job.sleeps
    /\ job.sleeps <= job.polls + 1
    /\ pc = "poll" <=> job.sleeps = job.polls + 1
    /\ pc = "poll" => Elapsed = PollInterval * (job.polls + 1)
    /\ pc # "poll" => Elapsed = PollInterval * job.polls

C23_Witness ==
    /\ pc = "poll"
    /\ job.polls = 2
    /\ job.pending = 2
    /\ job.sleeps = 3

C24_UnmatchedFrameTakesFirstScene ==
    [][(pc = "l_frame" /\ frame_num < total_frames /\ ~Matched(scenes, frame_num))
          => frame'.scene = 1]_vars

\* With the built-in list every frame of the render is matched.
C24_BuiltInListMatchesEveryFrame ==
    scenes = SceneTable(MaxBackgrounds) =>
        \A f \in 0..(total_frames - 1) : Matched(scenes, f)

\* C25: whatever number of backgrounds was loaded, every rendered frame used
\* the background whose index is the index its scene declares modulo the
\* number of backgrounds, that index lies in [0, number of backgrounds), and
\* the number of backgrounds is never zero when the modulo is taken.
C25_BackgroundIndexInRange ==
    /\ raised # ZeroDivisionError
    /\ pc = "r_frame" => Len(backgrounds) >= 1
    /\ frame # NoFrame =>
          /\ frame.bg_idx =
                SceneTable(Len(backgrounds))[frame.scene].bg_idx % Len(backgrounds)
          /\ frame.bg_idx >= 0
          /\ frame.bg_idx < Len(backgrounds)
          /\ frame.bg = backgrounds[frame.bg_idx + 1]

\* Three backgrounds loaded of four listed; the last scene, which would use the
\* fourth background, has been rendered.
C25_Witness ==
    /\ Len(LoadedManifest.backgrounds) = 4
    /\ Len(backgrounds) = 3
    /\ frame.scene = 7
    /\ frame.bg_idx = 0
    /\ frame.bg \in {BgFile(k) : k \in 1..4}

\* C26: for every frame and every number of characters n >= 1, the character
\* shown is the one whose equal part of [0, total_frames) holds the frame:
\* character i exactly when i*total_frames/n <= f < (i+1)*total_frames/n, here
\* cleared of the division, also when n does not divide total_frames.
C26_CharacterIsEqualPartition ==
    (frame # NoFrame /\ Len(characters) >= 1) =>
        /\ frame.char_idx * total_frames <= frame.slot * Len(characters)
        /\ frame.slot * Len(characters) < (frame.char_idx + 1) * total_frames
        /\ frame.char = characters[frame.char_idx + 1]

\* The same when the number of characters divides total_frames.
C26_EqualPartitionWhenDivisible ==
    (frame # NoFrame /\ Len(characters) >= 1
        /\ total_frames % Len(characters) = 0) =>
        /\ frame.char_idx * total_frames <= frame.slot * Len(characters)
        /\ frame.slot * Len(characters) < (frame.char_idx + 1) * total_frames
        /\ frame.char = characters[frame.char_idx + 1]

\* The number a sequence of decimal digits writes.
RECURSIVE NumberOf(_)
NumberOf(d) ==
    IF d = << >> THEN 0 ELSE 10 * NumberOf(SubSeq(d, 1, Len(d) - 1)) + d[Len(d)]

\* C27: the renderer saves one frame per index 0..total_frames-1 in increasing
\* order: the frame saved last is always the one before frame_num, each save
\* is of the index one above the previous save, its path is the index written
\* in five digits with zeros in front (so the path gives back the index, and
\* no path is used for two indices), and the render returns only after the
\* frame total_frames-1.
C27_OneFramePerIndexInOrder ==
    /\ [](entry = "render" =>
            /\ frame.slot = frame_num - 1
            /\ frame_num <= total_frames
            /\ pc = "r_done" => frame.slot = total_frames - 1
            /\ frame.slot >= 0 =>
                  /\ FramesPath \in files
                  /\ Len(frame.path) = 5
                  /\ \A k \in 1..5 : frame.path[k] \in 0..9
                  /\ NumberOf(frame.path) = frame.slot)
    /\ [][(entry = "render" /\ frame' # frame) =>
             /\ frame'.slot = frame.slot + 1
             /\ frame'.slot = frame_num
             /\ frame'.path # frame.path]_vars

C27_Witness ==
    /\ pc = "r_done"
    /\ frame.slot = total_frames - 1
    /\ frame.path = <<0, 2, 2, 4, 9>>
    /\ raised = NoError

\* The intervals of sc cover [0, TotalDuration] with no gap and no overlap.
Covers(sc) ==
    /\ sc # << >>
    /\ sc[1].start_time = 0
    /\ sc[Len(sc)].end_time = TotalDuration
    /\ \A i \in 1..Len(sc) : sc[i].end_time > sc[i].start_time
    /\ \A i \in 1..(Len(sc) - 1) : sc[i + 1].start_time = sc[i].end_time

\* generate_script has returned a Script to VideoPipeline.generate.
ScriptReturned == pc = "v_save" \/ document # NoDocument

\* C28: every Script generate_script returns has between 3 and 12 scenes whose
\* intervals cover [0, total_duration] with no gap or overlap; a response that
\* is otherwise is not returned as a Script.
\* As stated; the code builds the Script from whatever scenes the response has.
C28_ReturnedScriptIsBoundedAndCovering ==
    ScriptReturned =>
        /\ Len(scenes) >= 3
        /\ Len(scenes) <= 12
        /\ Covers(scenes)

\* What holds in its place: the Script has the response's scenes, one for one.
C28_ReturnedScriptIsTheResponse ==
    ScriptReturned => (scenes \in Scripts /\ nScenes = Len(scenes))

\* C29: the duration of the audio asset generate_audio returns is the number
\* the probe of the written file printed, never an estimate from the text; an
\* asset is not returned when the probe printed no value.
\* As stated; the code returns the asset with duration 0 on an empty probe output.
C29_DurationIsProbedOrNotReturned ==
    audio.returned =>
        /\ AudioPath \in produced
        /\ audio.stdout.kind = "number"
        /\ audio.duration = audio.stdout.value

\* What holds in its place: the duration is the probed number when there is
\* one, and 0 when the probe printed nothing; it never comes from the text.
C29_DurationIsProbedOrZero ==
    audio.returned =>
        /\ AudioPath \in produced
        /\ audio.stdout.kind \in {"number", "empty"}
        /\ audio.stdout.kind = "number" => audio.duration = audio.stdout.value
        /\ audio.stdout.kind = "empty" => audio.duration = 0

\* A step of the poller in which the status request was answered.
PollAnswered ==
    /\ pc = "poll"
    /\ job'.polls = job.polls + 1
    /\ attempt'.err # TimeoutException

\* C30: the polling loop is left only on an observed status of "succeeded"
\* (to fetch the result) or "failed" (with the failure raised); an answer with
\* any other status, "canceled" included, goes back to the head of the loop
\* with nothing raised; the poller is inside the loop only while neither of
\* the two has been observed, and after one of them no further poll is made
\* for the job.
C30_LoopLeftOnlyOnSucceededOrFailed ==
    /\ [](/\ pc \in {"sleep", "poll"} => job.status \notin {"succeeded", "failed"}
          /\ pc \in {"fetch", "write"} => job.status = "succeeded")
    /\ [][PollAnswered =>
             IF job'.status = "succeeded"
             THEN pc' = "fetch" /\ raised' = raised
             ELSE IF job'.status = "failed"
             THEN pc' = "aborted" /\ raised' = FailureError(JobKind, job'.error)
             ELSE pc' = "sleep" /\ raised' = raised /\ attempt' = attempt]_vars
    /\ [][job.status \in {"succeeded", "failed"} =>
             (job'.polls = job.polls \/ job' = NoJob)]_vars

\* A cancelled job was observed and the poller is about to poll again.
C30_Witness ==
    /\ pc = "poll"
    /\ job.status = "canceled"
    /\ job.other >= 1
    /\ job.polls >= 1
    /\ raised = NoError

\* _render_frames has returned to HybridPipeline.run.
RenderReturned == entry = "hybrid" /\ pc \in {"h_script", "h_tts", "h_compile", "h_return", "done"}

UnknownTheme == entry \in {"assets", "hybrid"} /\ opts.theme \notin DOMAIN THEMES

\* C32: with a theme name that is not defined, generate_theme_assets returns
\* with nothing raised and nothing created: no asset directory, no asset file,
\* no manifest, no provider called; HybridPipeline.run goes on from it to the
\* frame rendering, and what ends such a run early is never the assets stage.
C32_UnknownThemeReturnsSilently ==
    /\ [](UnknownTheme =>
            /\ produced \cap AssetDirs = {}
            /\ \A f \in produced : f[1] # AssetPath(1)[1]
            /\ ManifestPath \notin produced
            /\ manifest_writes = 0
            /\ ~manifest.exists
            /\ called \cap {"replicate", "openai"} = {}
            /\ pc \notin {"a_loop", "a_manifest", "a_post"}
            /\ pc = "aborted" => engine # NoEngine)
    /\ [][(UnknownTheme /\ pc = "a_start") =>
             /\ pc' = (IF entry = "hybrid" THEN "h_render" ELSE "done")
             /\ raised' = raised
             /\ files' = files]_vars

\* A hybrid run with an undefined theme that rendered, voiced and compiled.
C32_Witness ==
    /\ UnknownTheme
    /\ entry = "hybrid"
    /\ pc = "done"
    /\ returned = FinalPath
    /\ FramesPath \in produced
    /\ AudioPath \in produced
    /\ raised = NoError

\* The paths the written manifest lists, in any category.
ManifestListed ==
    {manifest.backgrounds[i] : i \in DOMAIN manifest.backgrounds}
        \cup {manifest.characters[i] : i \in DOMAIN manifest.characters}
        \cup {manifest.props[i] : i \in DOMAIN manifest.props}

\* C33: once generate_theme_assets has written the manifest, every path the
\* manifest lists is the path of an asset of the theme that this run wrote
\* before; a generation that raised ended the run with no manifest written.
C33_ManifestListsOnlyProducedAssets ==
    /\ [](GeneratesAssets =>
            /\ manifest.exists =>
                  /\ ManifestListed # {}
                  /\ \A e \in ManifestListed :
                        \E k \in 1..Len(ThemeAssets(opts.theme)) :
                           /\ ManifestEntry(ThemeAssets(opts.theme)[k]) = e
                           /\ AssetPath(k) \in produced
                           /\ AssetPath(k) \in files
            /\ (attempt.outcome = "error" /\ pc = "aborted") =>
                  /\ ~manifest.exists
                  /\ ManifestPath \notin produced)
    /\ [][(GeneratesAssets /\ ~manifest.exists /\ manifest'.exists) =>
             /\ pc = "a_manifest"
             /\ raised = NoError
             /\ \A k \in 1..Len(ThemeAssets(opts.theme)) : AssetPath(k) \in produced]_vars

\* The manifest of a theme is written after a real provider produced assets.
C33_Witness ==
    /\ GeneratesAssets
    /\ manifest.exists
    /\ Cardinality(ManifestListed) = Len(ThemeAssets(opts.theme))
    /\ "replicate" \in called
    /\ \A k \in 1..Len(ThemeAssets(opts.theme)) : AssetPath(k) \in produced

\* The intervals of table sc follow one another from 0 to the end of the
\* timeline: no gap, no overlap, none empty.
Tiles(sc) ==
    /\ sc[1].start = 0
    /\ sc[Len(sc)].end = duration
    /\ \A i \in 1..Len(sc) : sc[i].start < sc[i].end
    /\ \A i \in 1..(Len(sc) - 1) : sc[i + 1].start = sc[i].end

\* C34: with the built-in scene table at 30 fps over 75 s, the scenes tile
\* [0, 75), so every frame the renderer saves lies in exactly one scene's
\* interval and was composed for that scene and not for the no-match default,
\* and the scene never goes back as the frames advance.
C34_BuiltInTableCoversTimeline ==
    /\ [](entry = "render" =>
            /\ total_frames = 2250
            /\ Tiles(SceneTable(Len(backgrounds)))
            /\ frame.slot >= 0 =>
                  /\ Matched(SceneTable(Len(backgrounds)), frame.slot)
                  /\ Cardinality(ScenesAt(SceneTable(Len(backgrounds)), frame.slot)) = 1
                  /\ frame.scene \in ScenesAt(SceneTable(Len(backgrounds)), frame.slot))
    /\ [][(entry = "render" /\ frame' # frame) => frame'.scene >= frame.scene]_vars

\* The first frame of the last scene (70 s), after the frames of the six before.
C34_Witness ==
    /\ entry = "render"
    /\ frame.slot = 70 * fps
    /\ frame.scene = Len(SceneTable(Len(backgrounds)))
    /\ frame_num = 70 * fps + 1

\* C35: for every frame and every number n >= 1 of loaded characters the
\* character index lies in [0, n), is computed without an error, and never
\* decreases from one frame to the next; with no character loaded no character
\* is composited, and in either case the loop goes through every frame up to
\* the last.
C35_CharacterIndexInRangeAndMonotone ==
    /\ [](/\ raised = NoError
          /\ frame.slot >= 0 =>
                IF Len(characters) >= 1
                THEN /\ frame.char_idx >= 0
                     /\ frame.char_idx < Len(characters)
                     /\ frame.char = characters[frame.char_idx + 1]
                ELSE /\ frame.char_idx = -1
                     /\ frame.char = "none"
          /\ pc \in {"l_done", "r_done"} => frame.slot = total_frames - 1)
    /\ [][frame' # frame =>
             /\ frame'.slot = frame.slot + 1
             /\ frame'.char_idx >= frame.char_idx]_vars

\* Four characters: the last frames, where the quotient 2248 // 562 is 4, are
\* held to the fourth character.
C35_Witness ==
    /\ Len(characters) = MostCharacters
    /\ frame.slot = total_frames - 1
    /\ frame.char_idx = MostCharacters - 1
    /\ (total_frames - 1) \div (total_frames \div MostCharacters) = MostCharacters
    /\ pc = "l_done"

\* The other case, reached as well: no character loaded, the loop went through
\* every frame and composited none.
C35_NoCharacterAllFrames ==
    /\ Len(characters) = 0
    /\ pc = "l_done"
    /\ frame.slot = total_frames - 1
    /\ frame.char = "none"
====
